---- MODULE Spec2Model ----
(***************************************************************************)
(* Hedge execution engine of the funding-rate arbitrage bot                *)
(* (OKXService in src/services/okxService.ts, the V3.0 "Precision-First"   *)
(* snapshot, lines 414-919) running against one SPOT / SWAP pair of the    *)
(* exchange.                                                               *)
(*                                                                         *)
(* Quantities of the base currency are fixed-point integers: one coin is   *)
(* Coin units.  Prices and budgets are whole USDT.  A decimal step string  *)
(* such as "0.5" is the record [num |-> value of the step, unit |-> value  *)
(* of one unit of its last fractional digit], so "0.5" is                  *)
(* [num |-> Coin \div 2, unit |-> Coin \div 10].                           *)
(***************************************************************************)
EXTENDS Integers, Naturals, Sequences, FiniteSets, TLC

\* ------------------------------------------------------------------ bounds
\* fixed-point resolution: units per coin
Coin == 10000

\* engine operations (entries, exits, audits) started in one behaviour
MaxOps == 2

\* values handed to the rounding helpers: 0 .. MaxValue grains of 0.05 coins
MaxValue == 120

\* spot balances of an audited pair: 0 .. MaxHalfCoins halves of a coin
MaxHalfCoins == 16

\* times the poll loop's timeout advances the clock; later ticks keep the time
MaxTicks == 2

\* longest suggestedPairs list of an oracle response
MaxPairs == 2

\* most rows in the data array of a response
MaxRows == 2

\* ------------------------------------------------------- program constants
\* pollOrder(instId, ordId, maxRetries = 10)
maxRetries == 10

\* const availableForOneSide = usdtAmount * 0.48  (percent)
BudgetPct == 48

\* const estimatedFeeRate = 0.001  (per mille)
estimatedFeeRate == 1

\* setTimeout(runLoop, 3000)  (seconds)
TickSeconds == 3

\* (strategy.parameters.scanInterval || 60) * 1000  (seconds)
DefaultScanInterval == 60

\* strategy.parameters.minVolume24h || 5000000  (millions of USDT)
DefaultMinVolume == 5

\* strategy.parameters.minFundingRate || 0.0002  (units of 0.0001)
DefaultMinRate == 2

\* strategy.parameters.exitThreshold || 0.0001  (units of 0.0001)
DefaultExitThreshold == 1

\* strategy.parameters.maxPositions || 3
DefaultMaxPositions == 3

\* strategy.parameters.rotationThreshold || 0.0002  (units of 0.0001), read
\* only by the superseded variant of the cycle
DefaultRotationThreshold == 2

\* .slice(0, 30) of the tickers sorted by turnover
ScanPrefix == 30

\* if (topCandidates.length >= 10) break
ScanTarget == 10

\* ------------------------------------------------------------ input sets
\* swapInstrument: ctVal in units, minSz in contracts
SwapInstruments ==
    { [ctVal |-> 3 * Coin, minSz |-> 1],
      [ctVal |-> 2 * Coin, minSz |-> 2] }

\* spot instrument: lotSz "1", minSz "1" or "2"
SpotInstruments ==
    { [lotSz |-> [num |-> Coin, unit |-> Coin], minSz |-> Coin],
      [lotSz |-> [num |-> Coin, unit |-> Coin], minSz |-> 2 * Coin] }

\* spot balance of the base currency before the engine acts (none / dust)
InitialBalances == {0, Coin \div 2}

\* budgets handed to executeDualSideEntry and last prices of the swap ticker
UsdtAmounts == {400, 700}
Prices == {50}

\* response codes of the exchange: "0" success, "51000" parameter error,
\* "50001" any other failure
Codes == {"0", "51000", "50001"}

\* the worked example: budget 1000 USDT, swap price 100, ctVal "1",
\* spot lotSz "0.0001"
ExampleBudgets == {1000}
ExamplePrices == {100}
ExampleSwapInstruments == { [ctVal |-> Coin, minSz |-> 1] }
ExampleLot == Coin \div 10000
ExampleSpotInstruments ==
    { [lotSz |-> [num |-> ExampleLot, unit |-> ExampleLot], minSz |-> ExampleLot] }

\* fills of the example's spot order: 3.9990 coins, half a coin, 1 coin, the
\* whole order
ExampleFills ==
    {4 * Coin - 10 * ExampleLot, Coin \div 2, Coin, 4 * Coin + 41 * ExampleLot}

\* an audited pair: short swap positions (contracts) and spot balances
AuditPositions == {-1, -2}
AuditBalances == {k * (Coin \div 2) : k \in 0..MaxHalfCoins}

\* spot instruments of an audited pair: also lotSz "1" with minSz "3"
AuditSpotInstruments ==
    SpotInstruments \cup
    { [lotSz |-> [num |-> Coin, unit |-> Coin], minSz |-> 3 * Coin] }

\* the strategies of the scheduler, in the order of the strategies array
StrategyIds == {1, 2}

\* the swap instruments of the market ("A" is A-USDT-SWAP); "X" is an
\* identifier the exchange does not list
Insts == {"A", "B", "C"}
UnknownInst == "X"

\* rows of /api/v5/market/tickers: contract volume in millions and last price
Tickers ==
    [i \in Insts |->
        IF i = "A" THEN [volCcy24h |-> 4, last |-> 2]
        ELSE IF i = "B" THEN [volCcy24h |-> 3, last |-> 2]
        ELSE [volCcy24h |-> 1, last |-> 4]]

\* funding rates of the exchange, in units of 0.0001
FundingRates == {-1, 3}

\* parameters of a strategy as saved by the operator (any JSON value, also
\* null); a number left out or saved as 0 is read with its default
ParameterSets ==
    [isNull : {FALSE}, minFundingRate : {-2, 0, 3}, minVolume24h : {-1, 0},
     useAI : BOOLEAN, maxPositions : {1, 2}, exitThreshold : {0},
     scanInterval : {0}]
DefaultParameters ==
    [isNull |-> FALSE, minFundingRate |-> 0, minVolume24h |-> 0, useAI |-> FALSE,
     maxPositions |-> 0, exitThreshold |-> 0, scanInterval |-> 0]
NullParameters == [DefaultParameters EXCEPT !.isNull = TRUE]

\* parameters the operator saves while the loop runs: other scan intervals
EditedParameterSets ==
    [isNull : {FALSE}, minFundingRate : {0}, minVolume24h : {0}, useAI : {FALSE},
     maxPositions : {1}, exitThreshold : {0},
     scanInterval : {0, TickSeconds, 2 * TickSeconds}]

\* a market of positive funding rates, and strategies with one slot
RotationRates == {3, 6}
RotationParameterSets ==
    [isNull : {FALSE}, minFundingRate : {0}, minVolume24h : {0}, useAI : BOOLEAN,
     maxPositions : {1}, exitThreshold : {0}, scanInterval : {0}]

\* recommendedAction of an oracle response
OracleActions == {"BUY", "SELL", "HOLD", "WAIT"}

\* this.config of the service: null, or credentials of which each string is
\* empty (FALSE) or not (TRUE)
NoConfig ==
    [isNull |-> TRUE, apiKey |-> FALSE, secretKey |-> FALSE, passphrase |-> FALSE]
Configs ==
    {NoConfig} \cup
    [isNull : {FALSE}, apiKey : BOOLEAN, secretKey : BOOLEAN, passphrase : BOOLEAN]

\* codes of the exchange's JSON answers; "1" is an operation of which the rows
\* of data tell the failure
ExchangeCodes == Codes \cup {"1"}

\* sCode of a row of json.data: absent, "0", or a failure sub-code
SubCodes == {"none", "0", "51008"}

\* json.data of a response: at most MaxRows rows
DataLists == UNION {[1..n -> [sCode : SubCodes]] : n \in 0..MaxRows}

\* step strings handed to the rounding helpers: "1", "0.5", "5", "0.1"
Steps ==
    { [num |-> Coin, unit |-> Coin],
      [num |-> Coin \div 2, unit |-> Coin \div 10],
      [num |-> 5 * Coin, unit |-> Coin],
      [num |-> Coin \div 10, unit |-> Coin \div 10] }

\* values handed to the rounding helpers are vNum / vDen units
ValueGrain == Coin \div 20
ValueDens == {1, 3}

VARIABLES
    swapInfo,          \* instrument metadata of the swap (immutable)
    spotInfo,          \* instrument metadata of the spot pair (immutable)
    spotBal,           \* exchange: cash balance of the base currency
    swapPos,           \* exchange: signed swap position (negative = short)
    order,             \* exchange: the spot buy order of the current entry
    posts,             \* POST requests issued by the current operation
    pc,                \* position of the engine inside its operation
    usdtAmount,        \* executeDualSideEntry argument
    maxContracts,      \* planned contracts (Anchor)
    finalSpotSz,       \* planned spot order size
    pollI,             \* pollOrder loop counter i
    pollOutcome,       \* how pollOrder ended
    actualSpotFilled,  \* fill read back from the order
    safeContracts,     \* contracts recomputed from the fill
    result,            \* value returned by the operation
    exitBal,           \* executeDualSideExit: balance read from the account
    exitSellSz,        \* executeDualSideExit: size of the spot sell, 0 = none
    apc,               \* position of the auditor inside auditAndRebalance
    aPos,              \* auditor: |pos| read from the positions
    aBal,              \* auditor: balance read from the account
    aPosts,            \* POST requests issued by the current audit
    aResult,           \* value returned by auditAndRebalance, shown last
    ops,               \* operations started so far
    calc,              \* a call of the rounding helpers: arguments and results
    strategies,        \* strategiesRef.current: isActive, lastRun, parameters
    now,               \* Date.now() in seconds
    fundingRate,       \* exchange: funding rate of each instrument
    held,              \* exchange: instruments with a nonzero swap position
    positionsRef,      \* positionsRef.current: instruments with pos # 0
    timer,             \* the timeout of setTimeout(runLoop, 3000) is pending
    spc,               \* position of runLoop / executeMultiAssetStrategy
    si,                \* index of the for loop over the strategies
    inFlight,          \* strategy cycles started and not yet returned
    cycle,             \* locals of executeMultiAssetStrategy
    activeStrats,      \* runLoop: the strategies it read when it was called
    startedAt,         \* time of each strategy's last "[engine poll]" log entry
    req                \* a call of request on its own: config, wire, outcome

vars == <<swapInfo, spotInfo, spotBal, swapPos, order, posts, pc, usdtAmount,
          maxContracts, finalSpotSz, pollI, pollOutcome, actualSpotFilled,
          safeContracts, result, exitBal, exitSellSz, apc, aPos, aBal, aPosts,
          aResult, ops, calc, strategies, now, fundingRate, held, positionsRef,
          timer, spc, si, inFlight, cycle, activeStrats, startedAt, req>>

exchangeVars == <<spotBal, swapPos, order>>
schedVars == <<strategies, now, fundingRate, held, positionsRef, timer, spc, si,
               inFlight, cycle, activeStrats, startedAt>>

\* state the engine's operations never write
metaVars == <<swapInfo, spotInfo, calc, req, schedVars>>
entryLocals == <<usdtAmount, maxContracts, finalSpotSz, pollI, pollOutcome,
                 actualSpotFilled, safeContracts>>
exitLocals == <<exitBal, exitSellSz>>
auditVars == <<apc, aPos, aBal, aPosts, aResult>>

\* a snapshot value that has not been read yet
Unread == -1

\* ------------------------------------------------------------ pure helpers
Abs(x) == IF x < 0 THEN -x ELSE x

\* ceiling of a / b for a >= 0, b > 0
CeilDiv(a, b) == (a + b - 1) \div b

\* Number.prototype.toFixed(precision): round to the nearest multiple of unit
toFixed(v, unit) == ((2 * v + unit) \div (2 * unit)) * unit

\* request: a response whose code is not "0" throws, except code 51000 which
\* is logged as a warning and returns json.data
RequestThrows(code) == code # "0" /\ code # "51000"

\* the data returned by request carries the order (an ordId, the order row)
RequestHasData(code) == code = "0"

\* ceilToPrecision(value, step) for value = vNum / vDen:
\* Math.ceil(value * inverse) / inverse with inverse = 1 / stepNum, toFixed
ceilToPrecision(vNum, vDen, step) ==
    toFixed(CeilDiv(vNum, vDen * step.num) * step.num, step.unit)

\* floorToPrecision(value, step): Math.floor(value * 10^precision) / 10^precision
floorToPrecision(vNum, vDen, step) ==
    toFixed((vNum \div (vDen * step.unit)) * step.unit, step.unit)

\* maxContracts = Math.floor(usdtAmount * 0.48 / (ctVal * price))
MaxContractsOf(usdt, ctVal, price) ==
    (usdt * BudgetPct * Coin) \div (100 * ctVal * price)

\* variant of BelowMinimum: compares with one contract instead of minSz
BelowMinimumOfOne(contracts, minSz) == contracts < 1

\* if (maxContracts < parseFloat(swapInstrument.minSz)) return failure
BelowMinimum(contracts, minSz) == contracts < minSz

\* variant of FinalSpotSzOf: rounds the inflated target down to the lot step
FinalSpotSzFloor(contracts, ctVal, lotSz) ==
    floorToPrecision(contracts * ctVal * 1000, 1000 - estimatedFeeRate, lotSz)

\* finalSpotSz = ceilToPrecision(maxContracts * ctVal / (1 - fee), lotSz)
FinalSpotSzOf(contracts, ctVal, lotSz) ==
    ceilToPrecision(contracts * ctVal * 1000, 1000 - estimatedFeeRate, lotSz)

\* variant of ActualSpotFilledOf: the last fill (fillSz) of the order
LastFillOf(o) == o.fillSz

\* actualSpotFilled = parseFloat(checkOrder[0]?.accFillSz || '0')
ActualSpotFilledOf(o) == o.accFillSz

\* variant of SafeContractsOf: Math.ceil instead of Math.floor
SafeContractsCeil(filled, ctVal) == CeilDiv(filled, ctVal)

\* safeContracts = Math.floor(actualSpotFilled / ctVal)
SafeContractsOf(filled, ctVal) == filled \div ctVal

\* variant of NeedsRollback: the rollback branch is never taken
NeedsRollbackNever(contracts) == contracts < 0

\* if (safeContracts < 1) roll the spot buy back
NeedsRollback(contracts) == contracts < 1

\* size of the rollback sell: actualSpotFilled.toString()
RollbackSzOf(filled) == filled

\* taker fee the exchange deducts from the base currency bought
Fee(d) == (d * estimatedFeeRate) \div 1000

\* the exchange accepts a spot sell only if it is covered by the balance and
\* reaches the minimum order size, a swap order only from the minimum size
AcceptsSpotSell(sz) == sz >= spotInfo.minSz /\ sz <= spotBal
AcceptsSpotBuy(sz) == sz >= spotInfo.minSz
AcceptsSwapSell(sz) == sz >= swapInfo.minSz

\* ---------------------------------------------------------------- results
NoResult == [success |-> FALSE, message |-> <<"none", "">>]
Failure(kind, detail) == [success |-> FALSE, message |-> <<kind, detail>>]
Success(kind) == [success |-> TRUE, message |-> <<kind, "">>]

\* catch (e): `Entry Failed: ${e.message}`
EntryFailed(detail) == Failure("Entry Failed", detail)

\* message of the Error thrown by request: `OKX API Error (${json.code}): ...`
ApiError(code) == code

NoOrder == [sz |-> 0, accFillSz |-> 0, fillSz |-> 0, state |-> "none"]

Post(kind, inst, side, sz, code) ==
    [kind |-> kind, inst |-> inst, side |-> side, sz |-> sz, code |-> code]

\* ------------------------------------------------------------------- Init
HedgeInit(swaps, spots, balances, positions) ==
    /\ swapInfo \in swaps
    /\ spotInfo \in spots
    /\ spotBal \in balances
    /\ swapPos \in positions
    /\ order = NoOrder
    /\ posts = <<>>
    /\ pc = "idle"
    /\ usdtAmount = 0
    /\ maxContracts = 0
    /\ finalSpotSz = 0
    /\ pollI = 0
    /\ pollOutcome = "none"
    /\ actualSpotFilled = 0
    /\ safeContracts = 0
    /\ result = NoResult
    /\ exitBal = 0
    /\ exitSellSz = 0
    /\ apc = "idle"
    /\ aPos = Unread
    /\ aBal = Unread
    /\ aPosts = <<>>
    /\ aResult = NoResult
    /\ ops = 0

\* an account without a swap position
EngineInit(swaps, spots, balances) == HedgeInit(swaps, spots, balances, {0})

\* no oracle response / no analysis yet
NoResponse == [recommendedAction |-> "NONE", suggestedPairs |-> <<>>]

\* locals of executeMultiAssetStrategy before its first step
NoCycle ==
    [scanned |-> FALSE, candidates |-> <<>>, queue |-> <<>>, raw |-> NoResponse,
     analysis |-> NoResponse, exited |-> {}, entered |-> {}]

\* no response received / no outcome of request yet
NoWireResponse == [code |-> "none", data |-> <<>>]
NoOutcome == [thrown |-> FALSE, message |-> <<>>, data |-> <<>>]

\* no call of request on its own
NoRequest ==
    [phase |-> "none", config |-> NoConfig, fetches |-> 0, forwarded |-> 0,
     response |-> NoWireResponse, outcome |-> NoOutcome]

\* Date.now() when the application is mounted
StartTime == DefaultScanInterval

\* the application is not mounted: no poll loop
SchedIdle ==
    /\ strategies = [i \in StrategyIds |->
                        [isActive |-> FALSE, lastRun |-> 0,
                         parameters |-> DefaultParameters]]
    /\ now = StartTime
    /\ fundingRate = [i \in Insts |-> 0]
    /\ held = {}
    /\ positionsRef = {}
    /\ timer = FALSE
    /\ spc = "unmounted"
    /\ si = 1
    /\ inFlight = 0
    /\ cycle = NoCycle
    /\ activeStrats = strategies
    /\ startedAt = [i \in StrategyIds |-> Unread]

\* no call of the rounding helpers on its own
NoCalc == [vNum |-> 0, vDen |-> 1, step |-> [num |-> Coin, unit |-> Coin],
           floor |-> Unread, ceil |-> Unread]

Init ==
    /\ EngineInit(SwapInstruments, SpotInstruments, InitialBalances)
    /\ calc = NoCalc
    /\ req = NoRequest
    /\ SchedIdle

\* ------------------------------------------------------------ the exchange
\* the matching engine fills d more units of the live spot buy order
FillBy(d) ==
    /\ order.state = "live"
    /\ d > 0
    /\ d <= order.sz - order.accFillSz
    /\ order' = [order EXCEPT !.accFillSz = @ + d,
                              !.fillSz = d,
                              !.state = IF order.accFillSz + d = order.sz
                                        THEN "filled" ELSE "live"]
    /\ spotBal' = spotBal + d - Fee(d)
    /\ UNCHANGED <<metaVars, swapPos, posts, pc, entryLocals, result, exitLocals,
                   auditVars, ops>>

\* a fill of any whole number of lots
FillSpot ==
    /\ order.state = "live"
    /\ \E k \in 1..((order.sz - order.accFillSz) \div spotInfo.lotSz.num) :
         FillBy(k * spotInfo.lotSz.num)

\* the exchange cancels the unfilled remainder of the market order
SystemCancel ==
    /\ order.state = "live"
    /\ order' = [order EXCEPT !.state = "canceled"]
    /\ UNCHANGED <<metaVars, spotBal, swapPos, posts, pc, entryLocals, result,
                   exitLocals, auditVars, ops>>

\* ------------------------------------------------- executeDualSideEntry
\* the call: executeDualSideEntry(instId, usdtAmount, swapInstrument)
EntryCallWith(amounts) ==
    /\ pc = "idle"
    /\ apc = "idle"
    /\ ops < MaxOps
    /\ order.state # "live"
    /\ \E u \in amounts : usdtAmount' = u
    /\ ops' = ops + 1
    /\ pc' = "entry_fetch"
    /\ UNCHANGED <<metaVars, exchangeVars, result, posts, maxContracts, finalSpotSz,
                   pollI, pollOutcome, actualSpotFilled, safeContracts,
                   exitLocals, auditVars>>

EntryCall == EntryCallWith(UsdtAmounts)

\* 1.-5.: ticker and spot instruments, Anchor, fee buffer, ceil to lotSz
EntryPlanWith(prices) ==
    /\ pc = "entry_fetch"
    /\ \E code \in Codes, price \in prices \cup {0}, spotFound \in BOOLEAN :
         IF RequestThrows(code)
         THEN /\ result' = EntryFailed(ApiError(code))
              /\ pc' = "entry_done"
              /\ UNCHANGED <<maxContracts, finalSpotSz>>
         ELSE IF (IF RequestHasData(code) THEN price ELSE 0) <= 0
         THEN /\ result' = EntryFailed("no market price")
              /\ pc' = "entry_done"
              /\ UNCHANGED <<maxContracts, finalSpotSz>>
         ELSE IF ~spotFound
         THEN /\ result' = EntryFailed("Spot pair not found")
              /\ pc' = "entry_done"
              /\ UNCHANGED <<maxContracts, finalSpotSz>>
         ELSE LET mc == MaxContractsOf(usdtAmount, swapInfo.ctVal, price) IN
              /\ maxContracts' = mc
              /\ IF BelowMinimum(mc, swapInfo.minSz)
                 THEN /\ result' = Failure("Insufficient funds", "")
                      /\ pc' = "entry_done"
                      /\ UNCHANGED finalSpotSz
                 ELSE /\ finalSpotSz' = FinalSpotSzOf(mc, swapInfo.ctVal, spotInfo.lotSz)
                      /\ pc' = "entry_buy"
                      /\ UNCHANGED result
    /\ UNCHANGED <<metaVars, exchangeVars, posts, usdtAmount, pollI, pollOutcome,
                   actualSpotFilled, safeContracts, exitLocals, auditVars, ops>>

EntryPlan == EntryPlanWith(Prices)

\* 6.: setLeverage (its errors are swallowed), then the spot market buy
EntryBuySpot ==
    /\ pc = "entry_buy"
    /\ \E code \in Codes :
         /\ code = "0" => AcceptsSpotBuy(finalSpotSz)
         /\ posts' = posts \o <<Post("set-leverage", "SWAP", "", 1, "ignored"),
                                Post("order", "SPOT", "buy", finalSpotSz, code)>>
         /\ IF RequestThrows(code)
            THEN /\ result' = EntryFailed(ApiError(code))
                 /\ pc' = "entry_done"
                 /\ UNCHANGED order
            ELSE IF ~RequestHasData(code)
            THEN /\ result' = EntryFailed("Failed to place spot order")
                 /\ pc' = "entry_done"
                 /\ UNCHANGED order
            ELSE /\ order' = [sz |-> finalSpotSz, accFillSz |-> 0, fillSz |-> 0,
                              state |-> "live"]
                 /\ pc' = "entry_poll"
                 /\ UNCHANGED result
    /\ UNCHANGED <<metaVars, spotBal, swapPos, entryLocals, exitLocals, auditVars, ops>>

\* variant of PollExhausted: the loop allows one more iteration
PollExhaustedLate(i) == i = maxRetries

\* for (let i = 0; i < maxRetries; i++): iteration i is the last one
PollExhausted(i) == i + 1 = maxRetries

\* one iteration of the loop of pollOrder; the exception it may end with is
\* swallowed by the caller
pollOrder ==
    /\ pc = "entry_poll"
    /\ pollI < maxRetries
    /\ \E code \in Codes :
         IF RequestThrows(code)
         THEN /\ pollOutcome' = "error"
              /\ pc' = "entry_check"
              /\ pollI' = 0
         ELSE IF RequestHasData(code) /\ order.state = "filled"
         THEN /\ pollOutcome' = "filled"
              /\ pc' = "entry_check"
              /\ pollI' = 0
         ELSE IF RequestHasData(code) /\ order.state = "canceled"
         THEN /\ pollOutcome' = "canceled"
              /\ pc' = "entry_check"
              /\ pollI' = 0
         ELSE IF PollExhausted(pollI)
              THEN pollOutcome' = "timeout" /\ pc' = "entry_check" /\ pollI' = 0
              ELSE pollI' = pollI + 1 /\ UNCHANGED <<pollOutcome, pc>>
    /\ UNCHANGED <<metaVars, exchangeVars, posts, usdtAmount, maxContracts,
                   finalSpotSz, actualSpotFilled, safeContracts, result,
                   exitLocals, auditVars, ops>>

\* re-read of the order, 7.: contracts from the actual fill
EntryCheck ==
    /\ pc = "entry_check"
    /\ \E code \in Codes :
         IF RequestThrows(code)
         THEN /\ result' = EntryFailed(ApiError(code))
              /\ pc' = "entry_done"
              /\ UNCHANGED <<actualSpotFilled, safeContracts>>
         ELSE LET filled == IF RequestHasData(code)
                            THEN ActualSpotFilledOf(order) ELSE 0 IN
              /\ actualSpotFilled' = filled
              /\ IF filled <= 0
                 THEN /\ result' = Failure("Spot buy failed (No fill)", "")
                      /\ pc' = "entry_done"
                      /\ UNCHANGED safeContracts
                 ELSE /\ safeContracts' = SafeContractsOf(filled, swapInfo.ctVal)
                      /\ pc' = IF NeedsRollback(SafeContractsOf(filled, swapInfo.ctVal))
                               THEN "entry_rollback" ELSE "entry_swap"
                      /\ UNCHANGED result
    /\ UNCHANGED <<metaVars, exchangeVars, posts, usdtAmount, maxContracts,
                   finalSpotSz, pollI, pollOutcome, exitLocals, auditVars, ops>>

\* the fill does not reach one contract: sell it back
EntryRollback ==
    /\ pc = "entry_rollback"
    /\ \E code \in Codes :
         LET sz == RollbackSzOf(actualSpotFilled) IN
         /\ code = "0" => AcceptsSpotSell(sz)
         /\ posts' = Append(posts, Post("order", "SPOT", "sell", sz, code))
         /\ spotBal' = IF code = "0" THEN spotBal - sz ELSE spotBal
         /\ result' = IF RequestThrows(code)
                      THEN EntryFailed(ApiError(code))
                      ELSE Failure("Rolled back", "")
         /\ pc' = "entry_done"
    /\ UNCHANGED <<metaVars, swapPos, order, entryLocals, exitLocals, auditVars, ops>>

\* 8.: the swap market sell (short)
EntrySwap ==
    /\ pc = "entry_swap"
    /\ \E code \in Codes :
         /\ code = "0" => AcceptsSwapSell(safeContracts)
         /\ posts' = Append(posts, Post("order", "SWAP", "sell", safeContracts, code))
         /\ swapPos' = IF code = "0" THEN swapPos - safeContracts ELSE swapPos
         /\ result' = IF RequestThrows(code)
                      THEN EntryFailed(ApiError(code))
                      ELSE Success("Precision Entry")
         /\ pc' = "entry_done"
    /\ UNCHANGED <<metaVars, spotBal, order, entryLocals, exitLocals, auditVars, ops>>

\* the caller takes the result; the locals of the operation are gone, and a
\* spot order that reached a terminal state is history
Return ==
    /\ pc \in {"entry_done", "exit_done"}
    /\ pc' = "idle"
    /\ posts' = <<>>
    /\ usdtAmount' = 0
    /\ maxContracts' = 0
    /\ finalSpotSz' = 0
    /\ pollI' = 0
    /\ pollOutcome' = "none"
    /\ actualSpotFilled' = 0
    /\ safeContracts' = 0
    /\ exitBal' = 0
    /\ exitSellSz' = 0
    /\ result' = NoResult
    /\ order' = IF order.state = "live" THEN order ELSE NoOrder
    /\ UNCHANGED <<metaVars, spotBal, swapPos, auditVars, ops>>

\* -------------------------------------------------- executeDualSideExit
\* catch (e): `Exit Error: ${e.message}`; otherwise `Exit Success`
ExitResultOf(ps) ==
    LET failed == {i \in 1..Len(ps) : RequestThrows(ps[i].code)} IN
    IF failed # {}
    THEN Failure("Exit Error",
                 ApiError(ps[CHOOSE i \in failed : \A j \in failed : i <= j].code))
    ELSE Success("Exit Success")

\* size of the spot sell of the exit: the balance floored to the lot step
ExitSellSzOf(balance, lotSz) == floorToPrecision(balance, 1, lotSz)

\* the call: executeDualSideExit(instId, swapInstrument, posSizeContracts)
ExitCall ==
    /\ pc = "idle"
    /\ apc = "idle"
    /\ ops < MaxOps
    /\ swapPos # 0
    /\ ops' = ops + 1
    /\ pc' = "exit_close"
    /\ UNCHANGED <<metaVars, exchangeVars, posts, entryLocals, exitLocals, result,
                   auditVars>>

\* 1.: the close-position request is issued and not awaited
ExitClose ==
    /\ pc = "exit_close"
    /\ \E code \in Codes :
         /\ posts' = Append(posts, Post("close-position", "SWAP", "", 0, code))
         /\ swapPos' = IF code = "0" THEN 0 ELSE swapPos
    /\ pc' = "exit_read"
    /\ UNCHANGED <<metaVars, spotBal, order, entryLocals, exitLocals, result,
                   auditVars, ops>>

\* 2.: balance and spot instrument are read (a failed read yields no rows);
\* without a sell both promises are settled and the operation returns
ExitRead ==
    /\ pc = "exit_read"
    /\ \E assetsOk \in BOOLEAN, spotFound \in BOOLEAN :
         LET balance == IF assetsOk THEN spotBal ELSE 0
             sellSz == ExitSellSzOf(balance, spotInfo.lotSz) IN
         /\ exitBal' = balance
         /\ IF balance > 0 /\ spotFound /\ sellSz >= spotInfo.minSz
            THEN /\ exitSellSz' = sellSz
                 /\ pc' = "exit_sell"
                 /\ UNCHANGED result
            ELSE /\ exitSellSz' = 0
                 /\ pc' = "exit_done"
                 /\ result' = ExitResultOf(posts)
    /\ UNCHANGED <<metaVars, exchangeVars, posts, entryLocals, auditVars, ops>>

\* the spot market sell, then await Promise.all([swapPromise, spotPromise])
ExitSell ==
    /\ pc = "exit_sell"
    /\ \E code \in Codes :
         LET ps == Append(posts, Post("order", "SPOT", "sell", exitSellSz, code)) IN
         /\ code = "0" => AcceptsSpotSell(exitSellSz)
         /\ posts' = ps
         /\ spotBal' = IF code = "0" THEN spotBal - exitSellSz ELSE spotBal
         /\ result' = ExitResultOf(ps)
    /\ pc' = "exit_done"
    /\ UNCHANGED <<metaVars, swapPos, order, entryLocals, exitLocals, auditVars, ops>>

\* ---------------------------------------------------- auditAndRebalance
\* if (absDiff < minSpotSz * 0.5) return "Perfectly balanced."
AuditBalanced(diff, minSpotSz) == 2 * Abs(diff) < minSpotSz

\* variant of NewContractsOf: Math.ceil instead of Math.floor
NewContractsCeil(diff, ctVal) == CeilDiv(diff, ctVal)

\* newContracts = Math.floor(diff / ctVal)
NewContractsOf(diff, ctVal) == diff \div ctVal

\* variant of DustSellSzOf: the excess rounded up to the lot step
DustSellSzCeil(diff, lotSz) == ceilToPrecision(diff, 1, lotSz)

\* sellSz = floorToPrecision(diff, spotInfo.lotSz)
DustSellSzOf(diff, lotSz) == floorToPrecision(diff, 1, lotSz)

\* buySz = ceilToPrecision(shortage / (1 - estimatedFeeRate), spotInfo.lotSz)
CoverBuySzOf(shortage, lotSz) ==
    ceilToPrecision(shortage * 1000, 1000 - estimatedFeeRate, lotSz)

\* the call: auditAndRebalance(instId), from the dashboard
AuditCall ==
    /\ apc = "idle"
    /\ pc = "idle"
    /\ ops < MaxOps
    /\ ops' = ops + 1
    /\ apc' = "read"
    /\ UNCHANGED <<metaVars, exchangeVars, posts, pc, entryLocals, exitLocals,
                   result, aPos, aBal, aPosts, aResult>>

\* getPositions() of the Promise.all: a failed read yields no rows
AuditReadPositions ==
    /\ apc = "read"
    /\ aPos = Unread
    /\ \E ok \in BOOLEAN : aPos' = IF ok THEN Abs(swapPos) ELSE 0
    /\ UNCHANGED <<metaVars, exchangeVars, posts, pc, entryLocals, exitLocals,
                   result, apc, aBal, aPosts, aResult, ops>>

\* getAccountAssets() of the Promise.all: a failed read yields no rows
AuditReadAssets ==
    /\ apc = "read"
    /\ aBal = Unread
    /\ \E ok \in BOOLEAN : aBal' = IF ok THEN spotBal ELSE 0
    /\ UNCHANGED <<metaVars, exchangeVars, posts, pc, entryLocals, exitLocals,
                   result, apc, aPos, aPosts, aResult, ops>>

\* the rest of auditAndRebalance once the snapshot is complete
AuditDecide ==
    /\ apc = "read"
    /\ aPos # Unread
    /\ aBal # Unread
    /\ apc' = "done"
    /\ \E metaOk \in BOOLEAN, code \in Codes, k \in 0..3 :
         LET diff == aBal - aPos * swapInfo.ctVal
             newContracts == NewContractsOf(diff, swapInfo.ctVal)
             sellSz == DustSellSzOf(diff, spotInfo.lotSz)
             buySz == CoverBuySzOf(Abs(diff), spotInfo.lotSz)
             bought == k * spotInfo.lotSz.num
         IN
         IF aPos = 0
         THEN /\ aResult' = Failure("No position found", "")
              /\ UNCHANGED <<spotBal, swapPos, aPosts>>
         ELSE IF ~metaOk
         THEN /\ aResult' = Failure("Metadata missing", "")
              /\ UNCHANGED <<spotBal, swapPos, aPosts>>
         ELSE IF AuditBalanced(diff, spotInfo.minSz)
         THEN /\ aResult' = Success("Perfectly balanced")
              /\ UNCHANGED <<spotBal, swapPos, aPosts>>
         ELSE IF diff > 0 /\ newContracts >= swapInfo.minSz
         THEN /\ code = "0" => AcceptsSwapSell(newContracts)
              /\ aPosts' = Append(aPosts, Post("order", "SWAP", "sell", newContracts, code))
              /\ swapPos' = IF code = "0" THEN swapPos - newContracts ELSE swapPos
              /\ aResult' = IF RequestThrows(code)
                            THEN Failure("Rebalance Error", ApiError(code))
                            ELSE Success("Opened new contracts")
              /\ UNCHANGED spotBal
         ELSE IF diff > 0 /\ sellSz >= spotInfo.minSz
         THEN /\ code = "0" => AcceptsSpotSell(sellSz)
              /\ aPosts' = Append(aPosts, Post("order", "SPOT", "sell", sellSz, code))
              /\ spotBal' = IF code = "0" THEN spotBal - sellSz ELSE spotBal
              /\ aResult' = IF RequestThrows(code)
                            THEN Failure("Rebalance Error", ApiError(code))
                            ELSE Success("Sold dust")
              /\ UNCHANGED swapPos
         ELSE IF diff > 0
         THEN /\ aResult' = Success("Dust too small to sell")
              /\ UNCHANGED <<spotBal, swapPos, aPosts>>
         ELSE IF buySz >= spotInfo.minSz
         THEN /\ bought <= buySz
              /\ code = "0" => AcceptsSpotBuy(buySz)
              /\ aPosts' = Append(aPosts, Post("order", "SPOT", "buy", buySz, code))
              /\ spotBal' = IF code = "0" THEN spotBal + bought - Fee(bought) ELSE spotBal
              /\ aResult' = IF RequestThrows(code)
                            THEN Failure("Rebalance Error", ApiError(code))
                            ELSE Success("Bought spot")
              /\ UNCHANGED swapPos
         ELSE /\ aResult' = Failure("Shortage too small to buy", "")
              /\ UNCHANGED <<spotBal, swapPos, aPosts>>
    /\ UNCHANGED <<metaVars, order, posts, pc, entryLocals, exitLocals, result,
                   aPos, aBal, ops>>

\* the dashboard takes the result and shows its message: alert(res.message);
\* aResult stays the result shown last until the next audit returns
AuditReturn ==
    /\ apc = "done"
    /\ apc' = "idle"
    /\ aPos' = Unread
    /\ aBal' = Unread
    /\ aPosts' = <<>>
    /\ UNCHANGED <<metaVars, exchangeVars, posts, pc, entryLocals, exitLocals,
                   result, aResult, ops>>

Next ==
    \/ FillSpot
    \/ SystemCancel
    \/ EntryCall
    \/ EntryPlan
    \/ EntryBuySpot
    \/ pollOrder
    \/ EntryCheck
    \/ EntryRollback
    \/ EntrySwap
    \/ ExitCall
    \/ ExitClose
    \/ ExitRead
    \/ ExitSell
    \/ AuditCall
    \/ AuditReadPositions
    \/ AuditReadAssets
    \/ AuditDecide
    \/ AuditReturn
    \/ Return

Spec == Init /\ [][Next]_vars

\* ------------------------------------------------- the worked example
\* executeDualSideEntry on the example's instruments, budget and price
ExampleInit ==
    /\ EngineInit(ExampleSwapInstruments, ExampleSpotInstruments, {0})
    /\ calc = NoCalc
    /\ req = NoRequest
    /\ SchedIdle

ExampleCall == EntryCallWith(ExampleBudgets)

ExamplePlan == EntryPlanWith(ExamplePrices)

ExampleFill == \E d \in ExampleFills : FillBy(d)

ExampleNext ==
    \/ ExampleCall
    \/ ExamplePlan
    \/ EntryBuySpot
    \/ ExampleFill
    \/ SystemCancel
    \/ pollOrder
    \/ EntryCheck
    \/ EntryRollback
    \/ EntrySwap
    \/ Return

ExampleSpec == ExampleInit /\ [][ExampleNext]_vars

\* ================================================================ claims
\* indices of the swap orders / spot sells / cancels among POST requests
SwapOrders(ps) == {i \in 1..Len(ps) : ps[i].kind = "order" /\ ps[i].inst = "SWAP"}
SpotSells(ps) ==
    {i \in 1..Len(ps) : ps[i].kind = "order" /\ ps[i].inst = "SPOT" /\ ps[i].side = "sell"}
Cancels(ps) == {i \in 1..Len(ps) : ps[i].kind = "cancel-order"}
ClosePositions(ps) == {i \in 1..Len(ps) : ps[i].kind = "close-position"}

\* the entry has read the fill back from the order
FillReadBack == pc \in {"entry_rollback", "entry_swap", "entry_done"} /\ actualSpotFilled > 0

\* C1: after an entry that returns success, the contracts of the swap sell
\* times ctVal do not exceed the cumulative fill of the spot order
C1_ContractsCoveredByFill ==
    (pc = "entry_done" /\ result.success) =>
        \A i \in SwapOrders(posts) : posts[i].sz * swapInfo.ctVal <= order.accFillSz

\* a successful entry whose fill is not a multiple of ctVal
C1_Witness ==
    /\ pc = "entry_done"
    /\ result.success
    /\ order.accFillSz % swapInfo.ctVal # 0
    /\ \E i \in SwapOrders(posts) : posts[i].sz >= 1 /\ posts[i].code = "0"

\* C2 (as claimed): when the swap sell of an entry fails with an error, a spot
\* sell of exactly the filled quantity has been submitted and the result is
\* a failure
C2_RollbackOnSwapFailure ==
    (pc = "entry_done" /\ \E i \in SwapOrders(posts) : posts[i].code \notin {"0", "51000"}) =>
        /\ ~result.success
        /\ \E j \in SpotSells(posts) : posts[j].sz = actualSpotFilled

\* messages of the failures of an entry in which a request other than the
\* rollback sell (the ticker request, say) fails with an error
GenericEntryFailures ==
    {EntryFailed(ApiError(c)).message : c \in Codes \ {"0", "51000"}}

\* C3 (as claimed): when the rollback sell of an entry fails with an error,
\* the result is a failure whose message is none of the generic entry
\* failure messages
C3_RollbackFailureDistinct ==
    (pc = "entry_done" /\ \E i \in SpotSells(posts) : posts[i].code \notin {"0", "51000"}) =>
        /\ ~result.success
        /\ result.message \notin GenericEntryFailures

\* C4 (as claimed): whenever an operation has returned and a swap position
\* is open, |pos| * ctVal is within one lot step of the spot balance, or the
\* difference is dust below the spot minimum order size
C4_CoverageWithinLotStep ==
    ((pc \in {"entry_done", "exit_done"} \/ apc = "done") /\ swapPos # 0) =>
        LET gap == Abs(Abs(swapPos) * swapInfo.ctVal - spotBal) IN
        gap <= spotInfo.lotSz.num \/ gap < spotInfo.minSz

\* C5 (as claimed): an entry that submitted the swap sell and returns while
\* the live deviation |balance - |pos| * ctVal| exceeds 5% of the balance has
\* closed the swap position, sold the spot and returns failure
C5_CircuitBreaker ==
    (/\ pc = "entry_done"
     /\ SwapOrders(posts) # {}
     /\ order.state # "live"
     /\ spotBal > 0
     /\ 20 * Abs(spotBal - Abs(swapPos) * swapInfo.ctVal) > spotBal) =>
        /\ ~result.success
        /\ ClosePositions(posts) # {}
        /\ SpotSells(posts) # {}

\* C6: when the fill read back is below one contract, no swap order is ever
\* submitted, and the entry returns failure after submitting a spot sell of
\* exactly that fill
C6_RollbackBelowOneContract ==
    (FillReadBack /\ actualSpotFilled < swapInfo.ctVal) =>
        /\ SwapOrders(posts) = {}
        /\ pc # "entry_swap"
        /\ pc = "entry_done" =>
             /\ ~result.success
             /\ \E i \in SpotSells(posts) : posts[i].sz = actualSpotFilled

\* an entry returned after rolling back a fill below one contract
C6_Witness ==
    /\ pc = "entry_done"
    /\ actualSpotFilled > 0
    /\ actualSpotFilled < swapInfo.ctVal
    /\ \E i \in SpotSells(posts) : posts[i].sz = actualSpotFilled /\ posts[i].code = "0"

\* C7: the step of an entry that finds maxContracts below the swap minimum
\* order size returns failure, has issued no request that changes anything,
\* and leaves balance, position and orders of the exchange unchanged
C7_FailFastBelowMinimum ==
    [][(pc = "entry_fetch" /\ pc' # "entry_fetch" /\ maxContracts' < swapInfo.minSz) =>
          /\ pc' = "entry_done"
          /\ ~result'.success
          /\ posts' = <<>>
          /\ UNCHANGED <<spotBal, swapPos, order>>]_vars

\* an entry returned because one affordable contract is below a minimum of two
C7_Witness ==
    /\ pc = "entry_done"
    /\ maxContracts >= 1
    /\ maxContracts < swapInfo.minSz
    /\ result.message[1] = "Insufficient funds"
    /\ posts = <<>>

\* the pair is hedged: a position is open and differs from the spot balance
\* by less than one contract
HedgeBalanced ==
    swapPos # 0 /\ Abs(spotBal - Abs(swapPos) * swapInfo.ctVal) < swapInfo.ctVal

\* C8 (as claimed): a swap order is only submitted after a positive fill was
\* read back, and an entry returns either failure or success for a balanced
\* pair
C8_SecondLegAfterFill ==
    /\ (pc \in {"entry_fetch", "entry_buy", "entry_poll", "entry_check", "entry_rollback",
                "entry_swap", "entry_done"} /\ SwapOrders(posts) # {})
          => (actualSpotFilled > 0 /\ actualSpotFilled <= order.accFillSz)
    /\ (pc = "entry_done" /\ result.success) => HedgeBalanced

\* C9 (as claimed): when pollOrder timed out, the order is re-read only
\* after a cancel request for it has been issued
C9_CancelBeforeReread ==
    (pollOutcome = "timeout" /\ pc \in {"entry_rollback", "entry_swap", "entry_done"}) =>
        Cancels(posts) # {}

\* C10: the step that fixes the contract count takes the cumulative fill of
\* the order: safeContracts = floor(accFillSz / ctVal)
C10_CumulativeFill ==
    [][(pc = "entry_check" /\ pc' \in {"entry_rollback", "entry_swap"}) =>
          /\ actualSpotFilled' = order.accFillSz
          /\ safeContracts' = order.accFillSz \div swapInfo.ctVal]_vars

\* the contract count was fixed for an order executed in several fills, for
\* which the last fill alone gives another count
C10_Witness ==
    /\ pc = "entry_swap"
    /\ order.fillSz < order.accFillSz
    /\ safeContracts = order.accFillSz \div swapInfo.ctVal
    /\ safeContracts # order.fillSz \div swapInfo.ctVal

\* ------------------------------------------------- the auditor on a hedge
\* auditAndRebalance called from the dashboard on an account that holds a
\* short swap position and some spot balance
AuditInit ==
    /\ HedgeInit(SwapInstruments, AuditSpotInstruments, AuditBalances,
                 AuditPositions)
    /\ calc = NoCalc
    /\ req = NoRequest
    /\ SchedIdle

AuditNext ==
    \/ AuditCall
    \/ AuditReadPositions
    \/ AuditReadAssets
    \/ AuditDecide
    \/ AuditReturn

AuditSpec == AuditInit /\ [][AuditNext]_vars

\* ------------------------------------------------- the rounding helpers
\* floorToPrecision and ceilToPrecision called on their own
engineVars == <<exchangeVars, posts, pc, entryLocals, result, exitLocals,
                auditVars, ops>>

RoundInit ==
    /\ EngineInit(ExampleSwapInstruments, ExampleSpotInstruments, {0})
    /\ calc \in [vNum : {n * ValueGrain : n \in 0..MaxValue}, vDen : ValueDens,
                  step : Steps, floor : {Unread}, ceil : {Unread}]
    /\ req = NoRequest
    /\ SchedIdle

CallFloor ==
    /\ calc.floor = Unread
    /\ calc' = [calc EXCEPT !.floor = floorToPrecision(calc.vNum, calc.vDen, calc.step)]
    /\ UNCHANGED <<swapInfo, spotInfo, req, engineVars, schedVars>>

CallCeil ==
    /\ calc.ceil = Unread
    /\ calc' = [calc EXCEPT !.ceil = ceilToPrecision(calc.vNum, calc.vDen, calc.step)]
    /\ UNCHANGED <<swapInfo, spotInfo, req, engineVars, schedVars>>

RoundNext == CallFloor \/ CallCeil

RoundSpec == RoundInit /\ [][RoundNext]_vars

\* ------------------------------------------- request and the signing proxy
\* if (!this.config || !this.config.apiKey) throw
Configured(config) == ~config.isNull /\ config.apiKey

\* variant of ProxyRejects: only the API key header is required
ProxyRejectsKeyOnly(config) == ~config.apiKey

\* the proxy: if (!apiKey || !secretKey || !passphrase) answer 401
ProxyRejects(config) == ~config.apiKey \/ ~config.secretKey \/ ~config.passphrase

\* what the proxy hands back without a JSON answer of the exchange: missing
\* credentials, a non-JSON upstream answer, an exception while forwarding
ProxyAnswer(code) == [code |-> code, data |-> <<>>]

\* subError: the sub-code (with its sub-message) of the first row of data,
\* if there is one and it is not "0"
SubError(data) ==
    IF data # <<>> /\ data[1].sCode \notin {"none", "0"}
    THEN <<data[1].sCode>> ELSE <<>>

\* the end of request: json.data, or the Error thrown for the response
RequestOutcome(response) ==
    IF RequestThrows(response.code)
    THEN [thrown |-> TRUE,
          message |-> <<"OKX API Error", response.code>> \o SubError(response.data),
          data |-> <<>>]
    ELSE [thrown |-> FALSE, message |-> <<>>, data |-> response.data]

RequestInit ==
    /\ EngineInit(ExampleSwapInstruments, ExampleSpotInstruments, {0})
    /\ calc = NoCalc
    /\ SchedIdle
    /\ \E c \in Configs : req = [NoRequest EXCEPT !.phase = "call", !.config = c]

\* request(endpoint, method, body) up to its fetch
RequestCall ==
    /\ req.phase = "call"
    /\ req' = IF Configured(req.config)
              THEN [req EXCEPT !.phase = "proxy", !.fetches = @ + 1]
              ELSE [req EXCEPT !.phase = "returned",
                               !.outcome = [thrown |-> TRUE,
                                            message |-> <<"API credentials not configured">>,
                                            data |-> <<>>]]
    /\ UNCHANGED <<swapInfo, spotInfo, calc, engineVars, schedVars>>

\* the /api/proxy handler: 401 without forwarding, or the request is signed
\* and forwarded and the exchange's JSON answer (or 502 / 500) is relayed
ProxyHandle ==
    /\ req.phase = "proxy"
    /\ IF ProxyRejects(req.config)
       THEN req' = [req EXCEPT !.phase = "response", !.response = ProxyAnswer("401")]
       ELSE \E r \in [code : ExchangeCodes, data : DataLists]
                        \cup {ProxyAnswer("502"), ProxyAnswer("500")} :
              req' = [req EXCEPT !.phase = "response", !.forwarded = @ + 1,
                                 !.response = r]
    /\ UNCHANGED <<swapInfo, spotInfo, calc, engineVars, schedVars>>

\* request after await res.json()
RequestReturn ==
    /\ req.phase = "response"
    /\ req' = [req EXCEPT !.phase = "returned",
                          !.outcome = RequestOutcome(req.response)]
    /\ UNCHANGED <<swapInfo, spotInfo, calc, engineVars, schedVars>>

RequestNext == RequestCall \/ ProxyHandle \/ RequestReturn

RequestSpec == RequestInit /\ [][RequestNext]_vars

\* ------------------------------------------------- the strategy scheduler
\* JavaScript's x || d for a number x
OrDefault(x, d) == IF x = 0 THEN d ELSE x

ScanIntervalOf(p) == OrDefault(p.scanInterval, DefaultScanInterval)
MinVolumeOf(p) == OrDefault(p.minVolume24h, DefaultMinVolume)
MinRateOf(p) == OrDefault(p.minFundingRate, DefaultMinRate)
ExitThresholdOf(p) == OrDefault(p.exitThreshold, DefaultExitThreshold)
MaxPositionsOf(p) == OrDefault(p.maxPositions, DefaultMaxPositions)

\* getMarketTickers: volUsdt24h = volCcy24h * last
volUsdt24h(i) == Tickers[i].volCcy24h * Tickers[i].last

\* getFundingRate: the rate of the exchange, '0' when the request fails
RateRead(i, failed) == IF i \in failed THEN 0 ELSE fundingRate[i]

\* the first n elements of a sequence: .slice(0, n)
Slice(seq, n) == SubSeq(seq, 1, IF n < Len(seq) THEN (IF n < 0 THEN 0 ELSE n) ELSE Len(seq))

\* filtered.sort((a, b) => b.volUsdt24h - a.volUsdt24h)
RECURSIVE SortByVol(_)
SortByVol(insts) ==
    IF insts = {} THEN <<>>
    ELSE LET top == CHOOSE i \in insts :
                        \A j \in insts : volUsdt24h(i) >= volUsdt24h(j)
         IN <<top>> \o SortByVol(insts \ {top})

\* the loop over sortedByVol: push the rows whose rate is >= minRate, break
\* once ScanTarget rows are collected
RECURSIVE Collect(_, _, _, _)
Collect(todo, acc, failed, minRate) ==
    IF todo = <<>> \/ Len(acc) >= ScanTarget THEN acc
    ELSE LET rate == RateRead(Head(todo), failed) IN
         Collect(Tail(todo),
                 IF rate >= minRate
                 THEN Append(acc, [instId |-> Head(todo), fundingRate |-> rate])
                 ELSE acc,
                 failed, minRate)

\* steps 1 and 2 of executeMultiAssetStrategy: topCandidates
TopCandidates(tickers, failed, p) ==
    LET filtered == {i \in tickers : volUsdt24h(i) > MinVolumeOf(p)} IN
    Collect(Slice(SortByVol(filtered), ScanPrefix), <<>>, failed, MinRateOf(p))

\* topCandidates.sort((a, b) => b.fundingRate - a.fundingRate), a stable sort
RECURSIVE InsertByRate(_, _)
InsertByRate(sorted, c) ==
    IF sorted = <<>> THEN <<c>>
    ELSE IF Head(sorted).fundingRate >= c.fundingRate
    THEN <<Head(sorted)>> \o InsertByRate(Tail(sorted), c)
    ELSE <<c>> \o sorted

RECURSIVE SortByRate(_)
SortByRate(cs) ==
    IF cs = <<>> THEN <<>>
    ELSE InsertByRate(SortByRate(SubSeq(cs, 1, Len(cs) - 1)), cs[Len(cs)])

\* the instruments named by a sequence of rows
InstIds(cs) == {cs[k].instId : k \in 1..Len(cs)}

\* marketData.find(t => t.instId === pair)
Find(cs, pair) == CHOOSE k \in 1..Len(cs) : cs[k].instId = pair

\* lists of at most MaxPairs different identifiers
PairLists ==
    {ps \in UNION {[1..n -> Insts \cup {UnknownInst}] : n \in 0..MaxPairs} :
        \A a, b \in 1..Len(ps) : a # b => ps[a] # ps[b]}

\* what the oracle may answer: a JSON result, or no usable answer (transport
\* or parse failure, missing key), reported as recommendedAction ERROR
OracleResponses ==
    [recommendedAction : OracleActions, suggestedPairs : PairLists]
    \cup {[recommendedAction |-> "ERROR", suggestedPairs |-> <<>>]}

\* the suggested pairs the second validation rejects: not in marketData, or
\* with a funding rate <= 0
InvalidPairs(marketData, pairs) ==
    {k \in 1..Len(pairs) :
        \/ pairs[k] \notin InstIds(marketData)
        \/ marketData[Find(marketData, pairs[k])].fundingRate <= 0}

\* positiveRateMarketData is not empty: the oracle is asked
OracleAsked(marketData) ==
    \E k \in 1..Len(marketData) : marketData[k].fundingRate > 0

\* analyzeMarketConditions(marketData, strategyName, apiKey) for the answer
\* raw of the oracle
analyzeMarketConditions(marketData, raw) ==
    IF ~OracleAsked(marketData)
    THEN [recommendedAction |-> "WAIT", suggestedPairs |-> <<>>]
    ELSE IF raw.recommendedAction = "ERROR"
    THEN [recommendedAction |-> "ERROR", suggestedPairs |-> <<>>]
    ELSE IF /\ raw.recommendedAction = "BUY"
            /\ Len(raw.suggestedPairs) > 0
            /\ InvalidPairs(marketData, raw.suggestedPairs) # {}
    THEN [recommendedAction |-> "WAIT", suggestedPairs |-> <<>>]
    ELSE raw

\* variant of QueueOf: the queue stays the whole candidate list
QueueOfAll(cs, pairs) == cs

\* analysis.suggestedPairs.map(pair => topCandidates.find(...)).filter(found)
RECURSIVE QueueOf(_, _)
QueueOf(cs, pairs) ==
    IF pairs = <<>> THEN <<>>
    ELSE (IF Head(pairs) \in InstIds(cs) THEN <<cs[Find(cs, Head(pairs))]>> ELSE <<>>)
         \o QueueOf(cs, Tail(pairs))

\* the rows of the queue that are not in updatedPos
RECURSIVE Unheld(_, _)
Unheld(queue, updatedPos) ==
    IF queue = <<>> THEN <<>>
    ELSE (IF Head(queue).instId \in updatedPos THEN <<>> ELSE <<Head(queue)>>)
         \o Unheld(Tail(queue), updatedPos)

\* newEntries of the fill step
NewEntries(queue, updatedPos, maxPos) ==
    IF Cardinality(updatedPos) < maxPos
    THEN Slice(Unheld(queue, updatedPos), maxPos - Cardinality(updatedPos))
    ELSE <<>>

\* state the scheduler's own steps never write (the engine is called as a
\* whole: an entry or exit is one call with its outcome)
nonSchedVars == <<swapInfo, spotInfo, calc, req, engineVars>>

\* the application is mounted: the effect calls runLoop()
SchedInitWith(parameterSets, rates, holdings) ==
    /\ EngineInit(ExampleSwapInstruments, ExampleSpotInstruments, {0})
    /\ calc = NoCalc
    /\ req = NoRequest
    /\ \E p \in parameterSets, active \in BOOLEAN :
         strategies = [i \in StrategyIds |->
                          IF i = 1
                          THEN [isActive |-> TRUE, lastRun |-> 0, parameters |-> p]
                          ELSE [isActive |-> active, lastRun |-> 0,
                                parameters |-> DefaultParameters]]
    /\ now = StartTime
    /\ fundingRate \in rates
    /\ held \in {h \in holdings :
                    Cardinality(h) <= MaxPositionsOf(strategies[1].parameters)}
    /\ positionsRef = held
    /\ timer = FALSE
    /\ spc = "loop"
    /\ si = 1
    /\ inFlight = 0
    /\ cycle = NoCycle
    /\ activeStrats = strategies
    /\ startedAt = [i \in StrategyIds |-> Unread]

SchedInit ==
    SchedInitWith(ParameterSets \cup {NullParameters}, [Insts -> FundingRates],
                  SUBSET Insts)

\* the latest time the clock is advanced to
MaxTime == StartTime + MaxTicks * TickSeconds

\* fetchData of the dashboard: setPositions(await getPositions()), which is
\* [] when the read fails
fetchData ==
    /\ \E ok \in BOOLEAN : positionsRef' = IF ok THEN held ELSE {}
    /\ positionsRef' # positionsRef
    /\ UNCHANGED <<nonSchedVars, strategies, now, fundingRate, held, timer, spc, si,
                   inFlight, cycle, activeStrats, startedAt>>

\* the timeout fires: runLoop is called and filters the active strategies
TimerFire ==
    /\ timer
    /\ timer' = FALSE
    /\ now' = IF now < MaxTime THEN now + TickSeconds ELSE now
    /\ spc' = "loop"
    /\ si' = 1
    /\ activeStrats' = strategies
    /\ UNCHANGED <<nonSchedVars, strategies, fundingRate, held, positionsRef,
                   inFlight, cycle, startedAt>>

\* variant of ArmsNextTick: the next timeout is set before the strategies run
ArmsNextTickFirst(i) == i = 1

\* timeoutId = setTimeout(runLoop, 3000) once the for loop has ended
ArmsNextTick(i) == i > Cardinality(StrategyIds)

\* timeSinceLastRun >= scanInterval, for the strategy object the loop holds
IsDue(strategy, t) == t - strategy.lastRun >= ScanIntervalOf(strategy.parameters)

\* one iteration of the for loop of runLoop, or its end
LoopStep ==
    /\ spc = "loop"
    /\ timer' = (timer \/ ArmsNextTick(si))
    /\ IF si > Cardinality(StrategyIds)
       THEN /\ spc' = "wait"
            /\ UNCHANGED <<si, inFlight, cycle, startedAt>>
       ELSE IF ~activeStrats[si].isActive
       THEN /\ si' = si + 1
            /\ UNCHANGED <<spc, inFlight, cycle, startedAt>>
       ELSE IF activeStrats[si].parameters.isNull
       THEN \* TypeError of strategy.parameters.scanInterval: runLoop rejects
            /\ spc' = "halted"
            /\ UNCHANGED <<si, inFlight, cycle, startedAt>>
       ELSE IF IsDue(activeStrats[si], now)
       THEN /\ spc' = "scan"
            /\ inFlight' = inFlight + 1
            /\ cycle' = NoCycle
            /\ startedAt' = [startedAt EXCEPT ![si] = now]
            /\ UNCHANGED si
       ELSE /\ si' = si + 1
            /\ UNCHANGED <<spc, inFlight, cycle, startedAt>>
    /\ UNCHANGED <<nonSchedVars, strategies, now, fundingRate, held, positionsRef,
                   activeStrats>>

\* steps 1-3 of executeMultiAssetStrategy: tickers, funding rates, sort
Scan ==
    /\ spc = "scan"
    /\ \E tickersOk \in BOOLEAN, failed \in SUBSET Insts :
         LET p == activeStrats[si].parameters
             cands == TopCandidates(IF tickersOk THEN Insts ELSE {}, failed, p)
         IN
         /\ cycle' = [cycle EXCEPT !.scanned = TRUE,
                                   !.candidates = cands,
                                   !.queue = SortByRate(cands)]
         /\ spc' = IF cands = <<>> THEN "stamp"
                   ELSE IF p.useAI THEN "oracle" ELSE "exits"
    /\ UNCHANGED <<nonSchedVars, strategies, now, fundingRate, held, positionsRef,
                   timer, si, inFlight, activeStrats, startedAt>>

\* step 3 with useAI: analyzeMarketConditions(topCandidates.slice(0, 10), ...)
Oracle ==
    /\ spc = "oracle"
    /\ \E raw \in OracleResponses :
         LET marketData == Slice(cycle.queue, ScanTarget)
             analysis == analyzeMarketConditions(marketData, raw)
             buy == /\ analysis.recommendedAction = "BUY"
                    /\ Len(analysis.suggestedPairs) > 0
         IN
         /\ cycle' = [cycle EXCEPT
                         !.raw = IF OracleAsked(marketData) THEN raw ELSE NoResponse,
                         !.analysis = analysis,
                         !.queue = IF buy THEN QueueOf(cycle.queue, analysis.suggestedPairs)
                                   ELSE @]
         /\ spc' = IF buy THEN "exits" ELSE "stamp"
    /\ UNCHANGED <<nonSchedVars, strategies, now, fundingRate, held, positionsRef,
                   timer, si, inFlight, activeStrats, startedAt>>

\* the exit check over positionsRef.current: executeDualSideExit is called for
\* each position whose rate is below the exit threshold; a call closes the
\* position or fails
Exits ==
    /\ spc = "exits"
    /\ \E failed \in SUBSET positionsRef, closed \in SUBSET positionsRef :
         LET due == {i \in positionsRef :
                        RateRead(i, failed) < ExitThresholdOf(activeStrats[si].parameters)}
         IN
         /\ closed \subseteq due
         /\ cycle' = [cycle EXCEPT !.exited = due, !.raw = NoResponse]
         /\ held' = held \ closed
    /\ spc' = "fill"
    /\ UNCHANGED <<nonSchedVars, strategies, now, fundingRate, positionsRef, timer,
                   si, inFlight, activeStrats, startedAt>>

\* the fill step: getPositions (which is [] when the read fails), then
\* executeDualSideEntry for each new entry; a call opens the position or fails
Fill ==
    /\ spc = "fill"
    /\ \E ok \in BOOLEAN, opened \in SUBSET Insts :
         LET updatedPos == IF ok THEN held ELSE {}
             newEntries == NewEntries(cycle.queue, updatedPos,
                                      MaxPositionsOf(activeStrats[si].parameters))
         IN
         /\ opened \subseteq InstIds(newEntries)
         /\ cycle' = [cycle EXCEPT !.entered = InstIds(newEntries)]
         /\ held' = held \cup opened
    /\ spc' = "stamp"
    /\ UNCHANGED <<nonSchedVars, strategies, now, fundingRate, positionsRef, timer,
                   si, inFlight, activeStrats, startedAt>>

\* updateStrategyLastRun(strategy.id) and the return to the for loop
Stamp ==
    /\ spc = "stamp"
    /\ strategies' = [strategies EXCEPT ![si].lastRun = now]
    /\ inFlight' = inFlight - 1
    /\ si' = si + 1
    /\ spc' = "loop"
    /\ cycle' = NoCycle
    /\ UNCHANGED <<nonSchedVars, now, fundingRate, held, positionsRef, timer,
                   activeStrats, startedAt>>

SchedNext ==
    \/ fetchData
    \/ TimerFire
    \/ LoopStep
    \/ Scan
    \/ Oracle
    \/ Exits
    \/ Fill
    \/ Stamp

SchedSpec == SchedInit /\ [][SchedNext]_vars

\* ------------------------- the scheduler on a market of positive rates
RotationInit ==
    SchedInitWith(RotationParameterSets, [Insts -> RotationRates], SUBSET Insts)

RotationSpec == RotationInit /\ [][SchedNext]_vars

\* ------------------------------------- the scheduler with an operator
\* variant of Edited: the saved strategy starts with a fresh lastRun
EditedFresh(strategy, parameters) ==
    [strategy EXCEPT !.parameters = parameters, !.lastRun = 0]

\* handleSave: { ...strategy, parameters: parsedParams }
Edited(strategy, parameters) == [strategy EXCEPT !.parameters = parameters]

\* updateStrategy(updated), from the strategy editor
updateStrategy ==
    /\ \E i \in StrategyIds, p \in EditedParameterSets :
         /\ p # strategies[i].parameters
         /\ strategies' = [strategies EXCEPT ![i] = Edited(@, p)]
    /\ UNCHANGED <<nonSchedVars, now, fundingRate, held, positionsRef, timer, spc,
                   si, inFlight, cycle, activeStrats, startedAt>>

\* the loop starts with the default scan interval, on a market where all
\* funding rates are alike, with no hedge held
OperatorInit ==
    SchedInitWith({p \in EditedParameterSets : p.scanInterval = 0},
                  {[i \in Insts |-> r] : r \in FundingRates}, {{}})

\* the strategies of this specification do not use the oracle
OperatorNext ==
    \/ updateStrategy
    \/ fetchData
    \/ TimerFire
    \/ LoopStep
    \/ Scan
    \/ Exits
    \/ Fill
    \/ Stamp

OperatorSpec == OperatorInit /\ [][OperatorNext]_vars

\* spot buy orders among the POST requests
SpotBuys(ps) ==
    {i \in 1..Len(ps) : ps[i].kind = "order" /\ ps[i].inst = "SPOT" /\ ps[i].side = "buy"}

\* the example's entry has planned its sizes
ExamplePlanned ==
    pc \in {"entry_buy", "entry_poll", "entry_check", "entry_rollback", "entry_swap"}

\* the example's fill read back from the order is 3.9990 coins
ExampleSlippage == actualSpotFilled = 4 * Coin - 10 * ExampleLot

\* C11 as stated: for budget 1000, price 100, ctVal 1, fee 0.1% and lot step
\* 0.0001 the entry plans 4 contracts and buys spot of size "4.0040"; with a
\* cumulative fill of 3.9990 it shorts exactly 3 contracts
C11_BuySize40040 ==
    /\ ExamplePlanned =>
          maxContracts = 4 /\ finalSpotSz = 4 * Coin + 40 * ExampleLot
    /\ \A i \in SpotBuys(posts) : posts[i].sz = 4 * Coin + 40 * ExampleLot
    /\ ExampleSlippage => \A i \in SwapOrders(posts) : posts[i].sz = 3

\* C11 amended: for budget 1000, price 100, ctVal 1, fee 0.1% and lot step
\* 0.0001 the entry plans 4 contracts and buys spot of size "4.0041"
\* (4 / 0.999 = 4.004004... rounded up to the step); with a cumulative fill of
\* 3.9990 it shorts exactly 3 contracts, not 4
C11_EndToEndExample ==
    /\ ExamplePlanned =>
          maxContracts = 4 /\ finalSpotSz = 4 * Coin + 41 * ExampleLot
    /\ \A i \in SpotBuys(posts) : posts[i].sz = 4 * Coin + 41 * ExampleLot
    /\ ExampleSlippage => \A i \in SwapOrders(posts) : posts[i].sz = 3

\* the example's order filled 3.9990 and the swap sell of 3 contracts went out
C11_Witness ==
    /\ pc = "entry_done"
    /\ result.success
    /\ ExampleSlippage
    /\ \E i \in SpotBuys(posts) : posts[i].sz = 4 * Coin + 41 * ExampleLot
    /\ \E i \in SwapOrders(posts) : posts[i].sz = 3 /\ posts[i].code = "0"
    /\ swapPos = -3

\* C12: for every value v >= 0 and step s, floorToPrecision(v, s) <= v <
\* floorToPrecision(v, s) + s and ceilToPrecision(v, s) >= v >
\* ceilToPrecision(v, s) - s, both results are integer multiples of s and both
\* have exactly the fractional digits of s
C12_RoundingLaws ==
    /\ calc.floor # Unread =>
          /\ calc.floor * calc.vDen <= calc.vNum
          /\ calc.vNum < (calc.floor + calc.step.num) * calc.vDen
          /\ calc.floor % calc.step.num = 0
          /\ calc.floor % calc.step.unit = 0
    /\ calc.ceil # Unread =>
          /\ calc.ceil * calc.vDen >= calc.vNum
          /\ calc.vNum > (calc.ceil - calc.step.num) * calc.vDen
          /\ calc.ceil % calc.step.num = 0
          /\ calc.ceil % calc.step.unit = 0

\* C19: executeDualSideExit returns success only if both legs succeeded: the
\* swap position is closed and the spot holding is sold (nothing that could
\* be sold is left); here for the requests not answered with code 51000
C19_ExitSuccessNeedsBothLegs ==
    (/\ pc = "exit_done"
     /\ result.success
     /\ \A i \in 1..Len(posts) : posts[i].code # "51000")
    => /\ swapPos = 0
       /\ ExitSellSzOf(spotBal, spotInfo.lotSz) < spotInfo.minSz

\* the audit shown last found excess spot and placed its order
AuditActed ==
    aResult \in {Success("Opened new contracts"), Success("Sold dust")}

\* C20: the second of two audits in a row, with no trades between them but
\* the auditor's own, reports the pair as balanced and places no order; here
\* for a first audit that absorbed excess spot and a second audit that reads
\* the account and the instruments without failure
C20_SecondAuditNoAction ==
    [][(/\ ops = 2
        /\ AuditActed
        /\ apc = "read"
        /\ apc' = "done"
        /\ aPos = Abs(swapPos)
        /\ aBal = spotBal
        /\ aResult' # Failure("Metadata missing", ""))
       => /\ aPosts' = <<>>
          /\ aResult' = Success("Perfectly balanced")]_vars

\* C13: whatever minFundingRate and minVolume24h are, the candidate list of
\* the scan holds no instrument with a funding rate <= 0 and none whose
\* turnover is not above the configured minimum
C13_CandidatesEligible ==
    cycle.scanned =>
        \A k \in 1..Len(cycle.candidates) :
            /\ cycle.candidates[k].fundingRate > 0
            /\ volUsdt24h(cycle.candidates[k].instId)
                  > strategies[si].parameters.minVolume24h

\* the marketData handed to analyzeMarketConditions in the current cycle
CycleMarketData == Slice(SortByRate(cycle.candidates), ScanTarget)

\* C14: when the oracle's answer suggests a pair that is not a candidate or
\* whose funding rate is <= 0, analyzeMarketConditions returns WAIT with no
\* suggested pairs, whatever recommendedAction the oracle gave; here for a
\* strategy whose minimum funding rate is positive
C14_OracleGuard ==
    (/\ cycle.raw.recommendedAction \in OracleActions
     /\ MinRateOf(strategies[si].parameters) > 0
     /\ InvalidPairs(CycleMarketData, cycle.raw.suggestedPairs) # {})
    => cycle.analysis = [recommendedAction |-> "WAIT", suggestedPairs |-> <<>>]

\* C15: whatever happens to a strategy's turn, the poll loop has its next
\* tick ahead: runLoop is running or its timeout is pending
C15_NextTickAhead == timer \/ spc \notin {"wait", "halted"}

\* C16: at the end of every strategy cycle each hedge that is held (and was
\* not opened in this cycle) with a funding rate below the exit threshold has
\* had executeDualSideExit called for it; here for a strategy whose minimum
\* funding rate is positive
C16_ExitsEveryCycle ==
    (spc = "stamp" /\ MinRateOf(strategies[si].parameters) > 0) =>
        \A i \in held \ cycle.entered :
            fundingRate[i] < ExitThresholdOf(strategies[si].parameters)
                => i \in cycle.exited

\* C17: the fill step of a cycle never calls executeDualSideEntry for an
\* instrument that is held, and after its entries no more than maxPositions
\* instruments are held, also when the positions read fails; here for a
\* strategy whose minimum funding rate is positive
C17_FillWithinPositions ==
    [][(spc = "fill" /\ spc' = "stamp" /\ MinRateOf(strategies[si].parameters) > 0)
       => /\ cycle'.entered \cap held = {}
          /\ cycle'.entered # {} =>
                Cardinality(held') <= MaxPositionsOf(strategies[si].parameters)]_vars

\* C18: at most one strategy cycle is in flight, and a cycle's steps (with
\* its exits and entries) only run as that one cycle
C18_OneCycleInFlight ==
    /\ inFlight <= 1
    /\ spc \in {"scan", "oracle", "exits", "fill", "stamp"} => inFlight = 1
    /\ timer => spc = "wait"

\* a cycle has called its entries while the next strategy is active and due
C18_Witness ==
    /\ spc = "stamp"
    /\ cycle.entered # {}
    /\ inFlight = 1
    /\ si = 1
    /\ strategies[2].isActive
    /\ now - strategies[2].lastRun >= ScanIntervalOf(strategies[2].parameters)

\* an audit has decided on a snapshot that shows the live account short of
\* spot (a naked short), with the instruments' metadata found
AuditFoundShortage ==
    /\ apc = "done"
    /\ aPos > 0
    /\ aPos = Abs(swapPos)
    /\ aBal = spotBal
    /\ aBal < aPos * swapInfo.ctVal
    /\ aResult # Failure("Metadata missing", "")

\* the shortage the audit found
AuditShortage == aPos * swapInfo.ctVal - aBal

\* C21: a shortfall too small to buy at the spot minimum order size is
\* reported as a failure, never as balanced or success; here for shortfalls
\* of at least one spot lot step
C21_EveryShortageReported ==
    (/\ AuditFoundShortage
     /\ AuditShortage >= spotInfo.lotSz.num
     /\ CoverBuySzOf(AuditShortage, spotInfo.lotSz) < spotInfo.minSz)
        => ~aResult.success

\* C22: every response whose code is not "0" makes request throw, and the
\* error carries the failure sub-code of the first row of data when there
\* is one
C22_NonZeroCodeThrows ==
    (req.phase = "returned" /\ req.fetches > 0 /\ req.response.code # "0")
        => /\ req.outcome.thrown
           /\ \A k \in 1..Len(req.response.data) :
                 (k = 1 /\ req.response.data[k].sCode \notin {"none", "0"})
                    => \E m \in 1..Len(req.outcome.message) :
                          req.outcome.message[m] = req.response.data[k].sCode

\* C26: without a configuration or an API key request throws at once and
\* issues no HTTP request, none is repeated, and the proxy answers a request
\* that lacks a credential header with code 401 without forwarding it
C26_MissingCredentialsFailFast ==
    /\ req.fetches <= 1
    /\ (req.phase = "returned" /\ (req.config.isNull \/ ~req.config.apiKey))
          => /\ req.outcome.thrown
             /\ req.outcome.message = <<"API credentials not configured">>
             /\ req.fetches = 0
             /\ req.forwarded = 0
    /\ (/\ req.phase \in {"response", "returned"}
        /\ req.fetches > 0
        /\ (~req.config.apiKey \/ ~req.config.secretKey \/ ~req.config.passphrase))
          => /\ req.response.code = "401"
             /\ req.forwarded = 0
             /\ req.phase = "returned" => req.outcome.thrown

\* the proxy has answered a request that carried the key but no passphrase
C26_Witness ==
    /\ req.phase = "returned"
    /\ req.config.apiKey
    /\ ~req.config.passphrase
    /\ req.response.code = "401"

\* C23: pollOrder queries the order at most maxRetries times: while it runs
\* fewer than maxRetries queries have been issued, each query either ends it
\* or is counted, it returns the order only if the order is filled, fails
\* with the query that shows a canceled order and times out with the last
\* query
C23_PollOrderBounded ==
    /\ [](pc = "entry_poll" => pollI < maxRetries)
    /\ [][(pc = "entry_poll" /\ (pollI' # pollI \/ pc' # pc))
            => /\ pc' = "entry_check" \/ pollI' = pollI + 1
               /\ pc' = "entry_check" => pollOutcome' # "none"
               /\ pollOutcome' = "filled" => order.state = "filled"
               /\ pollOutcome' = "canceled" => order.state = "canceled"
               /\ pollOutcome' = "timeout" => pollI + 1 = maxRetries]_vars

\* pollOrder has ended with its timeout
C23_Witness ==
    /\ pc = "entry_check"
    /\ pollOutcome = "timeout"

C25_RotatesWeakest ==
    [][(/\ spc = "exits"
        /\ spc' = "fill"
        /\ positionsRef = held
        /\ Cardinality(positionsRef) >= MaxPositionsOf(activeStrats[si].parameters)
        /\ \E k \in 1..Len(cycle.queue), h \in positionsRef :
               /\ cycle.queue[k].instId \notin positionsRef
               /\ cycle.queue[k].fundingRate - fundingRate[h]
                     > DefaultRotationThreshold)
       => \E w \in positionsRef :
             /\ \A h \in positionsRef : fundingRate[w] <= fundingRate[h]
             /\ w \in cycle'.exited]_vars

\* the first n rows of the queue whose instrument is not held
FirstUnheld(queue, n) == InstIds(Slice(Unheld(queue, held), n))

\* C27: the queue of the scan is sorted by descending funding rate, and with
\* the oracle disabled the instruments a cycle enters are the first unheld
\* elements of the queue; the entries here for a strategy whose minimum
\* funding rate is positive
C27_EntriesFollowQueue ==
    /\ []((cycle.scanned /\ ~activeStrats[si].parameters.useAI)
            => \A a, b \in 1..Len(cycle.queue) :
                  a < b => cycle.queue[a].fundingRate >= cycle.queue[b].fundingRate)
    /\ [][(/\ spc = "fill"
            /\ spc' = "stamp"
            /\ ~activeStrats[si].parameters.useAI
            /\ MinRateOf(activeStrats[si].parameters) > 0)
            => cycle'.entered
                  = FirstUnheld(cycle.queue, Cardinality(cycle'.entered))]_vars

\* C28: an audit of an account whose spot balance is within half a spot lot
\* step of |position| x ctVal reports balanced and places no order, and an
\* audit that returns "No position found", "Metadata missing" or balanced
\* has placed no order; here for instruments whose metadata is found
C28_BalancedNoOrder ==
    [][(apc = "read" /\ apc' = "done" /\ aResult' # Failure("Metadata missing", ""))
       => /\ (/\ swapPos # 0
               /\ 2 * Abs(spotBal - Abs(swapPos) * swapInfo.ctVal) < spotInfo.lotSz.num)
                => (aResult' = Success("Perfectly balanced") /\ aPosts' = <<>>)
          /\ aResult' \in {Failure("No position found", ""),
                            Success("Perfectly balanced")}
                => aPosts' = <<>>]_vars

\* the orders of an audit: none, or one order of the given kind and size
AuditPosted(ps, inst, sz) ==
    /\ Len(ps) = 1
    /\ ps[1].kind = "order"
    /\ ps[1].inst = inst
    /\ ps[1].side = "sell"
    /\ ps[1].sz = sz

C30_SuccessNeedsSwapAccepted ==
    (pc = "entry_done" /\ result.success)
        => \E k \in 1..Len(posts) :
              /\ posts[k].kind = "order"
              /\ posts[k].inst = "SWAP"
              /\ posts[k].side = "sell"
              /\ posts[k].code = "0"

\* C31 (as claimed): while executeDualSideEntry holds the contract count it
\* computed and is about to submit the swap sell, the spot buy order is
\* filled or canceled, so its cumulative fill cannot grow any more
C31_OrderTerminalAtSwap ==
    pc = "entry_swap" => order.state \in {"filled", "canceled"}

\* C32 (as claimed): after an entry that returns success, the contracts of
\* an accepted swap sell times ctVal do not exceed the cumulative fill of the
\* spot order net of the taker fee, accFillSz * (1 - 0.001)
C32_ContractsCoveredNetOfFee ==
    (pc = "entry_done" /\ result.success) =>
        \A i \in SwapOrders(posts) :
            posts[i].code = "0" =>
                posts[i].sz * swapInfo.ctVal * 1000
                    <= order.accFillSz * (1000 - estimatedFeeRate)

\* C33 (as claimed): an exit that finds the account holding at least the
\* spot minimum order size of the base currency does not return success
\* without a spot sell, and the sell it prepares has the balance floored to
\* the lot step as its size, whatever the balance and instrument reads did
C33_ExitSellsHeldSpot ==
    [][/\ (pc = "exit_read" /\ pc' = "exit_done" /\ result'.success)
            => spotBal < spotInfo.minSz
       /\ (pc = "exit_read" /\ pc' = "exit_sell")
            => /\ exitSellSz' = ExitSellSzOf(spotBal, spotInfo.lotSz)
               /\ exitSellSz' <= spotBal]_vars

\* ------------------------------- the auditor beside a running operation
\* status of a row of the dashboard: 'Risk' above 10 USDT of hedge delta,
\* 'Dusty' above 1 USDT, 'Perfect' otherwise
HedgeStatus(spotBalance, swapSize, ctVal, currentPrice) ==
    LET deltaValue == (spotBalance - swapSize * ctVal) * currentPrice IN
    IF Abs(deltaValue) > 10 * Coin THEN "Risk"
    ELSE IF Abs(deltaValue) > Coin THEN "Dusty"
    ELSE "Perfect"

\* a hedge whose row of the dashboard offers the Auto-Fix button
InterleavedInit ==
    /\ HedgeInit(SwapInstruments, SpotInstruments, AuditBalances, AuditPositions)
    /\ \E price \in Prices :
         HedgeStatus(spotBal, Abs(swapPos), swapInfo.ctVal, price) # "Perfect"
    /\ calc = NoCalc
    /\ req = NoRequest
    /\ SchedIdle

\* the operator clicks Auto-Fix on the row rendered from that hedge; nothing
\* keeps the click from arriving while the engine is inside an operation
handleFixHedge ==
    /\ apc = "idle"
    /\ aResult = NoResult
    /\ ops < MaxOps
    /\ ops' = ops + 1
    /\ apc' = "read"
    /\ UNCHANGED <<metaVars, exchangeVars, posts, pc, entryLocals, exitLocals,
                   result, aPos, aBal, aPosts, aResult>>

InterleavedNext ==
    \/ ExitCall
    \/ ExitClose
    \/ ExitRead
    \/ ExitSell
    \/ Return
    \/ handleFixHedge
    \/ AuditReadPositions
    \/ AuditReadAssets
    \/ AuditDecide
    \/ AuditReturn

InterleavedSpec == InterleavedInit /\ [][InterleavedNext]_vars

\* both legs of the exit were accepted by the exchange
ExitLegsAccepted ==
    /\ \E i \in ClosePositions(posts) : posts[i].code = "0"
    /\ \E j \in SpotSells(posts) : posts[j].code = "0"

\* the snapshot of the audit holds the position as it was before the close
\* of the exit and the balance as it was after the spot sell of the exit
MixedSnapshot ==
    /\ ExitLegsAccepted
    /\ exitBal > 0
    /\ aPos > 0
    /\ aBal = exitBal - exitSellSz

\* C34 (as claimed): an audit that ran beside an exit of the same pair has
\* placed no order computed from a snapshot that mixes the position before
\* the close with the balance after the sell, and once both have finished
\* (here for an exit whose two legs were accepted and an audit that read
\* the position while it was still open) the spot balance and the quantity
\* covered by the swap position differ by less than one contract
C34_AuditBesideExit ==
    /\ (apc = "done" /\ aPosts # <<>>) => ~MixedSnapshot
    /\ (pc = "exit_done" /\ apc = "done" /\ ExitLegsAccepted /\ aPos > 0)
          => Abs(spotBal - Abs(swapPos) * swapInfo.ctVal) < swapInfo.ctVal

\* the identifiers of a list of pairs
PairsOf(pairs) == {pairs[k] : k \in 1..Len(pairs)}

\* C35: in a cycle of a strategy that uses the oracle, executeDualSideEntry
\* is called only for instruments that are among the scanned candidates and
\* among the suggestedPairs of the analysis, and for none when the
\* recommendedAction of the analysis is not BUY
C35_EntriesFollowOracle ==
    (spc \in {"scan", "oracle", "exits", "fill", "stamp"}
        /\ activeStrats[si].parameters.useAI = TRUE) =>
        /\ cycle.entered \subseteq
              InstIds(cycle.candidates) \cap PairsOf(cycle.analysis.suggestedPairs)
        /\ cycle.analysis.recommendedAction # "BUY" => cycle.entered = {}

\* a cycle with the oracle has entered a suggested candidate and left out a
\* candidate that was not suggested, although that one was not held either
C35_Witness ==
    /\ spc = "stamp"
    /\ activeStrats[si].parameters.useAI = TRUE
    /\ cycle.analysis.recommendedAction = "BUY"
    /\ cycle.entered # {}
    /\ \E i \in InstIds(cycle.candidates) :
          /\ i \notin PairsOf(cycle.analysis.suggestedPairs)
          /\ i \notin held
          /\ i \notin cycle.entered

\* C36: an audit that opens extra contracts or sells dust leaves no naked
\* short: after its order |swap contracts| * ctVal is at most the spot
\* balance, whatever the exchange answered
C36_AuditNoNakedShort ==
    [][(/\ apc = "read"
        /\ apc' = "done"
        /\ aPosts' # <<>>
        /\ aPosts'[1].side = "sell")
       => Abs(swapPos') * swapInfo.ctVal <= spotBal']_vars

\* an audit has sold dust, the exchange accepted the order, and the part of
\* the excess below one lot step is still in the account
C36_Witness ==
    /\ apc = "done"
    /\ aResult = Success("Sold dust")
    /\ aPosts[1].code = "0"
    /\ aBal = spotBal + aPosts[1].sz
    /\ spotBal > Abs(swapPos) * swapInfo.ctVal

====
